---------------------------- MODULE Spec2Model ----------------------------
(***************************************************************************)
(* A model of the adaptive quiz engine: QuestionBank (question_bank.py),   *)
(* QuizSession (session.py) and the main flow that serves questions        *)
(* (app.py, ui_components.py).                                            *)
(*                                                                         *)
(* Numbers.  Python floats are modelled by exact rationals <<num, den>>;   *)
(* every float the code compares against a threshold is, within the        *)
(* bounds, far from the threshold, and int(x * 0.6) and the like equal the *)
(* exact floors for every value the model reaches.  mastery_level moves in *)
(* steps of 0.1 and 0.2 and is kept in tenths.  The clock is in            *)
(* milliseconds, so that timestamps have a sub-second part.                *)
(*                                                                         *)
(* Objects.  Python lists and dicts that the code shares between a bank    *)
(* and a snapshot are objects of a heap (lists, dicts) and are held by     *)
(* reference; an absent value (None) is the empty sequence and a present   *)
(* one a one-element sequence.                                             *)
(***************************************************************************)
EXTENDS Integers, Sequences, FiniteSets, TLC

VARIABLES
    clock,          \* the reading of time.time() / datetime.now(), milliseconds
    lists,          \* heap of list objects (QuestionState.last_5_attempts)
    dicts,          \* heap of dict objects (QuestionBank.category_stats)
    bank,           \* the QuestionBank of the session (QuizSession.bank)
    snapshot,       \* the dict last returned by export_state, or None
    restored,       \* the QuestionBank last returned by import_state, or None
    current_round,  \* QuizSession.current_round
    skipped,        \* QuizSession.skipped
    stats,          \* QuizSession.stats
    outcome         \* the last call: its name, what it raised, what it returned

vars == <<clock, lists, dicts, bank, snapshot, restored,
          current_round, skipped, stats, outcome>>

---------------------------------------------------------------------------
(* Bounds of the model. *)

\* update_question_state calls on one bank
MaxUpdates == 3
\* update_question_state calls on the bank of one question
MaxDrill == 11
\* update_question_state calls before a selection
MaxSelectUpdates == 2
\* largest round size asked of select_questions / start_round
MaxN == 4
\* update_question_state calls before an export
MaxPersistUpdates == 2
\* handle_answer calls of a session that reach the bank
MaxAnswers == 1
\* largest round size asked of start_round
MaxRound == 3
\* clock advances
MaxTicks == 1
\* QuestionBank objects constructed in one behaviour
MaxBanks == 2
\* update_question_state calls on the bank of two questions whose attempts
\* are followed
MaxAttempts == 6
\* dict objects (category_stats of banks, snapshots and progress files) of
\* one behaviour with progress files
MaxDicts == 4

---------------------------------------------------------------------------
(* Rational arithmetic for the code's floats. *)

RECURSIVE GCD(_, _)
GCD(a, b) == IF b = 0 THEN a ELSE GCD(b, a % b)

Abs(x) == IF x < 0 THEN -x ELSE x

Rat(n, d) ==
    LET g == GCD(Abs(n), Abs(d))
        s == IF d < 0 THEN -1 ELSE 1
    IN  <<(s * n) \div g, (s * d) \div g>>

RInt(n) == <<n, 1>>
RAdd(x, y) == Rat(x[1] * y[2] + y[1] * x[2], x[2] * y[2])
RSub(x, y) == Rat(x[1] * y[2] - y[1] * x[2], x[2] * y[2])
RMul(x, y) == Rat(x[1] * y[1], x[2] * y[2])
\* a/b < c/d for a, c >= 0 and b, d > 0, by the integer parts and then the
\* remainders, so that no product overflows
RECURSIVE FracLt(_, _, _, _)
FracLt(a, b, c, d) ==
    IF a \div b # c \div d THEN a \div b < c \div d
    ELSE IF c % d = 0 THEN FALSE
    ELSE IF a % b = 0 THEN TRUE
    ELSE FracLt(d, c % d, b, a % b)

RLt(x, y) == FracLt(x[1], x[2], y[1], y[2])
RLe(x, y) == ~RLt(y, x)
RMax(x, y) == IF RLt(x, y) THEN y ELSE x
RMin(x, y) == IF RLt(y, x) THEN y ELSE x

Min(a, b) == IF a < b THEN a ELSE b
Max(a, b) == IF a < b THEN b ELSE a

RECURSIVE SumSeq(_)
SumSeq(s) == IF s = <<>> THEN 0 ELSE Head(s) + SumSeq(Tail(s))

RECURSIVE RSumSeq(_)
RSumSeq(s) == IF s = <<>> THEN RInt(0) ELSE RAdd(Head(s), RSumSeq(Tail(s)))

\* s[-k:] of Python
LastK(s, k) == IF Len(s) <= k THEN s ELSE SubSeq(s, Len(s) - k + 1, Len(s))

None == <<>>
Some(x) == <<x>>

---------------------------------------------------------------------------
(* The question sets (questions_data['questions']): id and category of     *)
(* each question, in file order.                                           *)

EmptyQuestions == <<>>

MainQuestions ==
    << [id |-> 1, category |-> "a"],
       [id |-> 2, category |-> "a"],
       [id |-> 3, category |-> "b"] >>

\* another question file: id 1 is gone, id 4 is new, category "c" replaces "b"
OtherQuestions ==
    << [id |-> 2, category |-> "a"],
       [id |-> 3, category |-> "c"],
       [id |-> 4, category |-> "c"] >>

IdSeq == <<1, 2, 3, 4>>

\* a question file with two questions
PairQuestions ==
    << [id |-> 1, category |-> "a"],
       [id |-> 2, category |-> "b"] >>

\* a question file with one question
SubQuestions == << [id |-> 2, category |-> "a"] >>

AllIds == {IdSeq[i] : i \in DOMAIN IdSeq}

\* the default round size: start_round(n = 50), select_questions(n = 50)
DefaultN == 50

\* seconds, as milliseconds
Seconds(n) == n * 1000

\* time_taken passed to update_question_state: 2 s and 12 s
TimeTaken == {Seconds(2), Seconds(12)}

\* one advance of the clock: 1.5 s
TickUs == Seconds(3) \div 2

Ids(b) == {b.questions[i].id : i \in 1..Len(b.questions)}

Index(b, qid) == CHOOSE i \in 1..Len(b.questions) : b.questions[i].id = qid

CategoryOf(b, qid) == b.questions[Index(b, qid)].category

Categories(qd) == {qd[i].category : i \in 1..Len(qd)}

---------------------------------------------------------------------------
(* QuestionState and QuestionBank.__init__ *)

QuestionState(cat, ref) ==
    [ difficulty        |-> RInt(1),
      times_shown       |-> 0,
      times_correct     |-> 0,
      consecutive_wrong |-> 0,
      last_5_attempts   |-> ref,
      time_to_answer    |-> <<>>,
      last_seen         |-> None,
      mastery_level     |-> 0,
      category          |-> cat ]

InitializeCategoryStats(qd) ==
    [cat \in Categories(qd) |-> [total_attempts |-> 0, correct_attempts |-> 0]]

\* QuestionBank(questions_data) on heap L, D: the bank and the heap with the
\* bank's new list objects (one per question) and its new dict object
NewQuestionBank(qd, L, D) ==
    LET n == Len(qd)
        ids == {qd[i].id : i \in 1..n}
        idx(q) == CHOOSE i \in 1..n : qd[i].id = q
    IN  [ bank  |-> [ questions |-> qd,
                      states |-> [q \in ids |->
                                    QuestionState(qd[idx(q)].category, Len(L) + idx(q))],
                      category_stats |-> Len(D) + 1 ],
          lists |-> L \o [i \in 1..n |-> <<>>],
          dicts |-> Append(D, InitializeCategoryStats(qd)) ]

---------------------------------------------------------------------------
(* QuestionBank.update_question_state *)

\* lines 121-126: the counters, last_seen, time_to_answer of the state
UpdateBasicStats(st, time_taken, now) ==
    [st EXCEPT !.times_shown = @ + 1,
               !.last_seen = Some(now),
               !.time_to_answer = Append(@, time_taken)]

\* a variant of AppendAttempt that evicts the newest entry (pop() for pop(0))
AppendAttemptPopLast(attempts, correct) ==
    LET a == Append(attempts, correct)
    IN  IF Len(a) > 5 THEN SubSeq(a, 1, Len(a) - 1) ELSE a

\* lines 124-126: last_5_attempts.append(correct), pop(0) beyond 5 entries
AppendAttempt(attempts, correct) ==
    LET a == Append(attempts, correct)
    IN  IF Len(a) > 5 THEN Tail(a) ELSE a

\* a variant of UpdateCategoryStats that counts an attempt only when it is
\* correct (line 129 moved under the if of line 130)
UpdateCategoryStatsOnCorrect(cs, correct) ==
    [ total_attempts   |-> IF correct THEN cs.total_attempts + 1
                                      ELSE cs.total_attempts,
      correct_attempts |-> IF correct THEN cs.correct_attempts + 1
                                      ELSE cs.correct_attempts ]

\* lines 129-131: the category's counters
UpdateCategoryStats(cs, correct) ==
    [ total_attempts   |-> cs.total_attempts + 1,
      correct_attempts |-> IF correct THEN cs.correct_attempts + 1
                                      ELSE cs.correct_attempts ]

\* a variant of OnCorrect without the floor of the difficulty at 1.0
OnCorrectNoFloor(st) ==
    [st EXCEPT !.times_correct = @ + 1,
               !.consecutive_wrong = 0,
               !.mastery_level = Min(10, @ + 1),
               !.difficulty = RMul(@, <<4, 5>>)]

\* lines 135-138: a correct answer
OnCorrect(st) ==
    [st EXCEPT !.times_correct = @ + 1,
               !.consecutive_wrong = 0,
               !.mastery_level = Min(10, @ + 1),
               !.difficulty = RMax(RInt(1), RMul(@, <<4, 5>>))]

\* a variant of OnWrong without the floor of the mastery level at 0.0
OnWrongNoFloor(st) ==
    LET cw == st.consecutive_wrong + 1
        difficulty_increase == RMul(RInt(2), RAdd(RInt(1), RMul(RInt(cw), <<1, 2>>)))
    IN  [st EXCEPT !.consecutive_wrong = cw,
                   !.mastery_level = @ - 2,
                   !.difficulty = RAdd(@, difficulty_increase)]

\* a variant of OnWrong whose penalty reads consecutive_wrong before it is
\* incremented
OnWrongStalePenalty(st) ==
    LET difficulty_increase ==
            RMul(RInt(2), RAdd(RInt(1), RMul(RInt(st.consecutive_wrong), <<1, 2>>)))
    IN  [st EXCEPT !.consecutive_wrong = @ + 1,
                   !.mastery_level = Max(0, @ - 2),
                   !.difficulty = RAdd(@, difficulty_increase)]

\* lines 140-143: a wrong answer
OnWrong(st) ==
    LET cw == st.consecutive_wrong + 1
        difficulty_increase == RMul(RInt(2), RAdd(RInt(1), RMul(RInt(cw), <<1, 2>>)))
    IN  [st EXCEPT !.consecutive_wrong = cw,
                   !.mastery_level = Max(0, @ - 2),
                   !.difficulty = RAdd(@, difficulty_increase)]

\* bank.update_question_state(qid, correct, time_taken) at time now, on heap
\* L, D.  A category missing from category_stats raises KeyError at line 129,
\* after lines 121-126 have changed the state.
UpdateQuestionStateOp(b, L, D, qid, correct, time_taken, now) ==
    LET st == b.states[qid]
        category == CategoryOf(b, qid)
        st1 == UpdateBasicStats(st, time_taken, now)
        L1 == [L EXCEPT ![st.last_5_attempts] = AppendAttempt(@, correct)]
        cstats == D[b.category_stats]
    IN  IF category \notin DOMAIN cstats
        THEN [ raised |-> "KeyError",
               bank   |-> [b EXCEPT !.states[qid] = st1],
               lists  |-> L1,
               dicts  |-> D ]
        ELSE [ raised |-> "",
               bank   |-> [b EXCEPT !.states[qid] =
                              IF correct THEN OnCorrect(st1) ELSE OnWrong(st1)],
               lists  |-> L1,
               dicts  |-> [D EXCEPT ![b.category_stats][category] =
                              UpdateCategoryStats(@, correct)] ]

---------------------------------------------------------------------------
(* Scoring: calculate_decay, calculate_pattern_score,                     *)
(* calculate_category_difficulty                                          *)

MillisPerDay == Seconds(86400)

\* math.exp(-days_passed/30).  It is exactly 1 for days_passed = 0, the only
\* value within the clock's horizon; beyond it the first-order value stands
\* in for the exponential.
ExpDecay(days_passed) ==
    IF days_passed = 0 THEN RInt(1) ELSE Rat(30, 30 + days_passed)

CalculateDecay(b, qid, now) ==
    LET state == b.states[qid]
    IN  IF state.last_seen = None
        THEN RInt(1)
        ELSE LET days_passed == (now - state.last_seen[1]) \div MillisPerDay
             IN  RSub(RInt(1), RMul(Rat(state.mastery_level, 10),
                                    RSub(RInt(1), ExpDecay(days_passed))))

CountTrue(s) == Cardinality({i \in 1..Len(s) : s[i]})

\* lines 38-46: the factor of the trend of the last five attempts
PatternFactor(attempts) ==
    IF Len(attempts) >= 5
    THEN LET recent_performance == LastK(attempts, 5)
             early_correct == CountTrue(SubSeq(recent_performance, 1, 3))
             late_correct == CountTrue(SubSeq(recent_performance, 4, 5))
         IN  IF early_correct > late_correct THEN <<3, 2>>
             ELSE IF early_correct < late_correct THEN <<4, 5>>
             ELSE RInt(1)
    ELSE RInt(1)

\* lines 49-53: min(2.0, avg_time / 5.0), times in milliseconds
SpeedFactor(times) ==
    IF times = <<>>
    THEN RInt(1)
    ELSE LET recent_times == LastK(times, 5)
             avg_time == Rat(SumSeq(recent_times), Len(recent_times) * Seconds(1))
         IN  RMin(RInt(2), RMul(avg_time, <<1, 5>>))

CalculatePatternScore(b, L, qid, now) ==
    LET state == b.states[qid]
    IN  RMul(RMul(RMul(state.difficulty, PatternFactor(L[state.last_5_attempts])),
                  SpeedFactor(state.time_to_answer)),
             CalculateDecay(b, qid, now))

CalculateCategoryDifficulty(b, category) ==
    LET cat_questions == {q \in Ids(b) : CategoryOf(b, q) = category}
        order == [i \in 1..Len(b.questions) |-> b.questions[i].id]
        diffs == [i \in 1..Len(order) |->
                    IF order[i] \in cat_questions
                    THEN b.states[order[i]].difficulty ELSE RInt(0)]
    IN  IF cat_questions = {}
        THEN RInt(1)
        ELSE RMul(RSumSeq(diffs), <<1, Cardinality(cat_questions)>>)

\* line 90
FinalScore(b, L, qid, now) ==
    RAdd(RMul(CalculatePatternScore(b, L, qid, now), <<7, 10>>),
         RMul(CalculateCategoryDifficulty(b, CategoryOf(b, qid)), <<3, 10>>))

---------------------------------------------------------------------------
(* QuestionBank.select_questions *)

\* line 80: the number of states with difficulty > 3
HardCount(b) == Cardinality({q \in Ids(b) : RLt(RInt(3), b.states[q].difficulty)})

\* a variant of AdjustedN that reads the default round size, 50, for n
AdjustedNDefault(b, n) ==
    LET total == Cardinality(Ids(b))
    IN  (50 * (10 * total - 3 * HardCount(b))) \div (10 * total)

\* line 81: int(n * (1 - fatigue_factor * 0.3)), fatigue_factor = hard / total
AdjustedN(b, n) ==
    LET total == Cardinality(Ids(b))
    IN  (n * (10 * total - 3 * HardCount(b))) \div (10 * total)

\* int(adjusted_n * 0.6), int(adjusted_n * 0.3), int(adjusted_n * 0.1)
Quota(adjusted_n, tenths) == (adjusted_n * tenths) \div 10

\* lines 84-96: the first k ids of question_scores after the stable sort by
\* score, descending (equal scores keep the order of self.questions)
HighPriority(b, L, k, now) ==
    LET question_scores == {<<q, FinalScore(b, L, q, now)>> : q \in Ids(b)}
        rank(p) == 1 + Cardinality({o \in question_scores :
                          \/ RLt(p[2], o[2])
                          \/ o[2] = p[2] /\ Index(b, o[1]) < Index(b, p[1])})
    IN  {p[1] : p \in {o \in question_scores : rank(o) <= k}}

\* line 97
Untested(b) == {q \in Ids(b) : b.states[q].times_shown = 0}

\* random.sample(pool, k), up to the order: the k-element subsets of pool
Samples(pool, k) == {S \in SUBSET pool : Cardinality(S) = k}

\* a list up to its order: how many times each id occurs in it
Counts(H, U, R) ==
    [q \in AllIds |-> (IF q \in H THEN 1 ELSE 0) + (IF q \in U THEN 1 ELSE 0)
                      + (IF q \in R THEN 1 ELSE 0)]

Size(c) == SumSeq([i \in DOMAIN IdSeq |-> c[IdSeq[i]]])

\* lines 107-111: the lists the fill loop can end with, from the list c
RECURSIVE FillRemaining(_, _, _)
FillRemaining(c, ids, adjusted_n) ==
    LET remaining == {q \in ids : c[q] = 0}
    IN  IF Size(c) >= adjusted_n \/ remaining = {}
        THEN {c}
        ELSE UNION {FillRemaining([c EXCEPT ![q] = 1], ids, adjusted_n) : q \in remaining}

\* random.shuffle: every order of the list c
RECURSIVE Shuffles(_)
Shuffles(c) ==
    LET present == {q \in AllIds : c[q] > 0}
    IN  IF present = {}
        THEN {<<>>}
        ELSE UNION {{<<q>> \o s : s \in Shuffles([c EXCEPT ![q] = @ - 1])} : q \in present}

\* select_questions(n): what it raises (line 79 divides by len(self.states))
\* and the lists it can return
SelectQuestionsOp(b, L, n, now) ==
    IF Ids(b) = {}
    THEN [raised |-> "ZeroDivisionError", returns |-> {}]
    ELSE LET adjusted_n == AdjustedN(b, n)
             high_priority == HighPriority(b, L, Quota(adjusted_n, 6), now)
             untested == Untested(b)
             random_pool == (Ids(b) \ high_priority) \ untested
             sampled ==
                 {Counts(H, U, R) :
                    H \in Samples(high_priority,
                                  Min(Cardinality(high_priority), Quota(adjusted_n, 6))),
                    U \in Samples(untested,
                                  Min(Cardinality(untested), Quota(adjusted_n, 3))),
                    R \in Samples(random_pool,
                                  Min(Cardinality(random_pool), Quota(adjusted_n, 1)))}
             filled == UNION {FillRemaining(c, Ids(b), adjusted_n) : c \in sampled}
         IN  [ raised  |-> "",
               returns |-> {SubSeq(s, 1, Min(adjusted_n, Len(s))) :
                               s \in UNION {Shuffles(c) : c \in filled}} ]

---------------------------------------------------------------------------
(* QuestionBank.export_state / import_state *)

\* datetime.isoformat(): the seconds, and the fraction only when it is not 0
IsoFormat(ms) ==
    [ seconds  |-> ms \div 1000,
      fraction |-> IF ms % 1000 = 0 THEN None ELSE Some(ms % 1000) ]

\* datetime.fromisoformat()
FromIsoFormat(str) ==
    str.seconds * 1000 + (IF str.fraction = None THEN 0 ELSE str.fraction[1])

\* lines 160-168: the dict exported for one state; last_5_attempts is the
\* state's own list object
ExportedState(state) ==
    [ difficulty        |-> state.difficulty,
      times_shown       |-> state.times_shown,
      times_correct     |-> state.times_correct,
      consecutive_wrong |-> state.consecutive_wrong,
      last_5_attempts   |-> state.last_5_attempts,
      mastery_level     |-> state.mastery_level,
      last_seen         |-> IF state.last_seen # None
                            THEN Some(IsoFormat(state.last_seen[1])) ELSE None ]

\* bank.export_state() at time now; category_stats is the bank's own dict object
ExportStateOp(b, now) ==
    [ states         |-> [q \in Ids(b) |-> ExportedState(b.states[q])],
      category_stats |-> Some(b.category_stats),
      timestamp      |-> IsoFormat(now) ]

\* lines 180-187: the fields of one state taken from its exported dict
ImportedState(state, state_dict) ==
    [state EXCEPT !.difficulty = state_dict.difficulty,
                  !.times_shown = state_dict.times_shown,
                  !.times_correct = state_dict.times_correct,
                  !.consecutive_wrong = state_dict.consecutive_wrong,
                  !.last_5_attempts = state_dict.last_5_attempts,
                  !.mastery_level = state_dict.mastery_level,
                  !.last_seen = IF state_dict.last_seen # None
                                THEN Some(FromIsoFormat(state_dict.last_seen[1]))
                                ELSE @]

\* QuestionBank.import_state(questions_data, state_data) on heap L, D.
\* bank.states[qid] raises KeyError for an id of the snapshot that the
\* question set does not have (line 180); nothing is returned then.
ImportStateOp(qd, state_data, L, D) ==
    LET new == NewQuestionBank(qd, L, D)
        b == new.bank
    IN  IF \E qid \in DOMAIN state_data.states : qid \notin Ids(b)
        THEN [raised |-> "KeyError", bank |-> None, lists |-> L, dicts |-> D]
        ELSE [ raised |-> "",
               bank |-> Some([b EXCEPT
                   !.states = [q \in Ids(b) |->
                                 IF q \in DOMAIN state_data.states
                                 THEN ImportedState(b.states[q], state_data.states[q])
                                 ELSE b.states[q]],
                   !.category_stats = IF state_data.category_stats # None
                                      THEN state_data.category_stats[1]
                                      ELSE @]),
               lists |-> new.lists,
               dicts |-> new.dicts ]

\* json.dumps / json.loads of a snapshot: the text holds the values, so what
\* is read back holds list and dict objects of its own (on heap L, D)
JsonCopy(state_data, L, D) ==
    LET ids == DOMAIN state_data.states
        pos(q) == Cardinality({p \in ids : p <= q})
        at(k) == CHOOSE q \in ids : pos(q) = k
    IN  [ data  |-> [state_data EXCEPT
                       !.states = [q \in ids |->
                                     [state_data.states[q] EXCEPT
                                        !.last_5_attempts = Len(L) + pos(q)]],
                       !.category_stats = Some(Len(D) + 1)],
          lists |-> L \o [k \in 1..Cardinality(ids) |->
                             L[state_data.states[at(k)].last_5_attempts]],
          dicts |-> Append(D, D[state_data.category_stats[1]]) ]

---------------------------------------------------------------------------
(* QuizSession *)

\* SessionStats(): both timestamps default to time.time()
SessionStats(now) ==
    [ correct |-> 0, wrong |-> 0, skipped |-> 0, streak |-> 0, best_streak |-> 0,
      start_time |-> now, question_start_time |-> now,
      times_per_category |-> [c \in {} |-> <<>>] ]

\* lines 42-44: times_per_category[category].append(time_taken)
RecordTime(times, category, time_taken) ==
    [c \in DOMAIN times \cup {category} |->
        IF c = category
        THEN (IF c \in DOMAIN times THEN Append(times[c], time_taken) ELSE <<time_taken>>)
        ELSE times[c]]

\* a variant of AnswerStats that takes the best streak before the streak is
\* incremented
AnswerStatsStaleBest(st, correct, category, time_taken, now) ==
    LET timed == [st EXCEPT !.times_per_category = RecordTime(@, category, time_taken),
                            !.question_start_time = now]
    IN  IF correct
        THEN [timed EXCEPT !.correct = @ + 1,
                           !.streak = @ + 1,
                           !.best_streak = Max(@, st.streak)]
        ELSE [timed EXCEPT !.wrong = @ + 1,
                           !.streak = 0]

\* lines 46-55: counters, streaks and the timer after an answer
AnswerStats(st, correct, category, time_taken, now) ==
    LET timed == [st EXCEPT !.times_per_category = RecordTime(@, category, time_taken),
                            !.question_start_time = now]
    IN  IF correct
        THEN [timed EXCEPT !.correct = @ + 1,
                           !.streak = @ + 1,
                           !.best_streak = Max(@, st.streak + 1)]
        ELSE [timed EXCEPT !.wrong = @ + 1,
                           !.streak = 0]

\* lines 61-63: the counter and the timer after a skip
SkipStats(st, now) ==
    [st EXCEPT !.skipped = @ + 1, !.question_start_time = now]

\* is_round_complete()
IsRoundComplete == current_round = <<>> /\ skipped = <<>>

---------------------------------------------------------------------------
(* The calls and their outcomes *)

\* op: the call; arg: its integer arguments; raised: the exception, "" if none;
\* ret: the list returned (for handle_answer and handle_skip, which return
\* nothing, the id popped; for show_question, the id shown)
Outcome(op, arg, raised, ret) == [op |-> op, arg |-> arg, raised |-> raised, ret |-> ret]

Updates(b) == SumSeq([i \in 1..Len(b.questions) |->
                        b.states[b.questions[i].id].times_shown])

\* time passes
Tick ==
    /\ clock' = clock + TickUs
    /\ UNCHANGED <<lists, dicts, bank, snapshot, restored,
                   current_round, skipped, stats, outcome>>

\* bank.update_question_state(qid, correct, time_taken)
UpdateQuestionState(qid, correct, time_taken) ==
    /\ qid \in Ids(bank)
    /\ LET r == UpdateQuestionStateOp(bank, lists, dicts, qid, correct, time_taken, clock)
       IN  /\ bank' = r.bank
           /\ lists' = r.lists
           /\ dicts' = r.dicts
           /\ outcome' = Outcome("update_question_state", <<qid>>, r.raised, <<>>)
    /\ UNCHANGED <<clock, snapshot, restored, current_round, skipped, stats>>

\* bank.select_questions(n)
SelectQuestions(n) ==
    LET r == SelectQuestionsOp(bank, lists, n, clock)
    IN  /\ IF r.raised # ""
           THEN outcome' = Outcome("select_questions", <<n>>, r.raised, <<>>)
           ELSE \E s \in r.returns : outcome' = Outcome("select_questions", <<n>>, "", s)
        /\ UNCHANGED <<clock, lists, dicts, bank, snapshot, restored,
                       current_round, skipped, stats>>

\* bank.export_state()
ExportState ==
    /\ snapshot' = Some(ExportStateOp(bank, clock))
    /\ outcome' = Outcome("export_state", <<>>, "", <<>>)
    /\ UNCHANGED <<clock, lists, dicts, bank, restored, current_round, skipped, stats>>

\* QuestionBank.import_state(qd, snapshot)
ImportState(qd) ==
    /\ snapshot # None
    /\ Len(dicts) < MaxBanks
    /\ LET r == ImportStateOp(qd, snapshot[1], lists, dicts)
       IN  /\ restored' = r.bank
           /\ lists' = r.lists
           /\ dicts' = r.dicts
           /\ outcome' = Outcome("import_state", <<>>, r.raised, <<>>)
    /\ UNCHANGED <<clock, bank, snapshot, current_round, skipped, stats>>

\* a variant of start_round that keeps the skipped list of the round before
StartRoundKeepSkipped(n) ==
    LET r == SelectQuestionsOp(bank, lists, n, clock)
    IN  /\ IF r.raised # ""
           THEN /\ outcome' = Outcome("start_round", <<n>>, r.raised, <<>>)
                /\ UNCHANGED <<current_round, skipped, stats>>
           ELSE /\ \E s \in r.returns : current_round' = s
                /\ skipped' = skipped
                /\ stats' = SessionStats(clock)
                /\ outcome' = Outcome("start_round", <<n>>, "", <<>>)
        /\ UNCHANGED <<clock, lists, dicts, bank, snapshot, restored>>

\* a variant of start_round that keeps the SessionStats of the round before
\* and only restarts the timer
StartRoundKeepStats(n) ==
    LET r == SelectQuestionsOp(bank, lists, n, clock)
    IN  /\ IF r.raised # ""
           THEN /\ outcome' = Outcome("start_round", <<n>>, r.raised, <<>>)
                /\ UNCHANGED <<current_round, skipped, stats>>
           ELSE /\ \E s \in r.returns : current_round' = s
                /\ skipped' = <<>>
                /\ stats' = [stats EXCEPT !.question_start_time = clock]
                /\ outcome' = Outcome("start_round", <<n>>, "", <<>>)
        /\ UNCHANGED <<clock, lists, dicts, bank, snapshot, restored>>

\* session.start_round(n); an exception of select_questions leaves the
\* session as it was
StartRound(n) ==
    LET r == SelectQuestionsOp(bank, lists, n, clock)
    IN  /\ IF r.raised # ""
           THEN /\ outcome' = Outcome("start_round", <<n>>, r.raised, <<>>)
                /\ UNCHANGED <<current_round, skipped, stats>>
           ELSE /\ \E s \in r.returns : current_round' = s
                /\ skipped' = <<>>
                /\ stats' = SessionStats(clock)
                /\ outcome' = Outcome("start_round", <<n>>, "", <<>>)
        /\ UNCHANGED <<clock, lists, dicts, bank, snapshot, restored>>

\* a variant of handle_answer that, with current_round empty, answers the
\* head of skipped
HandleAnswerFromSkipped(correct) ==
    LET source == IF current_round # <<>> THEN current_round ELSE skipped
    IN  IF source = <<>>
        THEN /\ outcome' = Outcome("handle_answer", <<>>, "", <<>>)
             /\ UNCHANGED <<clock, lists, dicts, bank, snapshot, restored,
                            current_round, skipped, stats>>
        ELSE LET qid == Head(source)
                 time_taken == clock - stats.question_start_time
                 r == UpdateQuestionStateOp(bank, lists, dicts, qid, correct,
                                            time_taken, clock)
             IN  /\ current_round' = IF current_round # <<>> THEN Tail(current_round)
                                                             ELSE current_round
                 /\ skipped' = IF current_round # <<>> THEN skipped ELSE Tail(skipped)
                 /\ bank' = r.bank
                 /\ lists' = r.lists
                 /\ dicts' = r.dicts
                 /\ stats' = AnswerStats(stats, correct, CategoryOf(bank, qid),
                                         time_taken, clock)
                 /\ outcome' = Outcome("handle_answer", <<>>, r.raised, <<qid>>)
                 /\ UNCHANGED <<clock, snapshot, restored>>

\* session.handle_answer(correct); ret is the id it popped
HandleAnswer(correct) ==
    IF current_round = <<>>
    THEN /\ outcome' = Outcome("handle_answer", <<>>, "", <<>>)
         /\ UNCHANGED <<clock, lists, dicts, bank, snapshot, restored,
                        current_round, skipped, stats>>
    ELSE LET qid == Head(current_round)
             time_taken == clock - stats.question_start_time
             r == UpdateQuestionStateOp(bank, lists, dicts, qid, correct, time_taken, clock)
         IN  /\ current_round' = Tail(current_round)
             /\ bank' = r.bank
             /\ lists' = r.lists
             /\ dicts' = r.dicts
             /\ stats' = IF r.raised # ""
                         THEN stats
                         ELSE AnswerStats(stats, correct, CategoryOf(bank, qid),
                                          time_taken, clock)
             /\ outcome' = Outcome("handle_answer", <<>>, r.raised, <<qid>>)
             /\ UNCHANGED <<clock, snapshot, restored, skipped>>

\* a variant of handle_skip that drops the id it pops
HandleSkipDiscard ==
    IF current_round = <<>>
    THEN /\ outcome' = Outcome("handle_skip", <<>>, "", <<>>)
         /\ UNCHANGED <<clock, lists, dicts, bank, snapshot, restored,
                        current_round, skipped, stats>>
    ELSE /\ current_round' = Tail(current_round)
         /\ stats' = SkipStats(stats, clock)
         /\ outcome' = Outcome("handle_skip", <<>>, "", <<Head(current_round)>>)
         /\ UNCHANGED <<clock, lists, dicts, bank, snapshot, restored, skipped>>

\* session.handle_skip(); ret is the id it popped
HandleSkip ==
    IF current_round = <<>>
    THEN /\ outcome' = Outcome("handle_skip", <<>>, "", <<>>)
         /\ UNCHANGED <<clock, lists, dicts, bank, snapshot, restored,
                        current_round, skipped, stats>>
    ELSE /\ skipped' = Append(skipped, Head(current_round))
         /\ current_round' = Tail(current_round)
         /\ stats' = SkipStats(stats, clock)
         /\ outcome' = Outcome("handle_skip", <<>>, "", <<Head(current_round)>>)
         /\ UNCHANGED <<clock, lists, dicts, bank, snapshot, restored>>

\* The main flow of the page: the head of current_round is served; with
\* current_round empty and skipped not, show_question is called for
\* skipped[0] and its line 22 reads current_round[0], an IndexError; with
\* both empty the round summary is shown.
MainFlow ==
    /\ outcome' =
         IF current_round # <<>>
         THEN Outcome("show_question", <<>>, "", <<Head(current_round)>>)
         ELSE IF skipped # <<>>
         THEN Outcome("show_question", <<>>, "IndexError", <<>>)
         ELSE Outcome("show_round_summary", <<>>, "", <<>>)
    /\ UNCHANGED <<clock, lists, dicts, bank, snapshot, restored,
                   current_round, skipped, stats>>

\* "Save Progress": the snapshot of the session's bank is written as JSON
\* (get_advanced_stats, written with it, reads the bank and changes nothing)
SaveProgress ==
    /\ Len(dicts) < MaxDicts
    /\ LET r == JsonCopy(ExportStateOp(bank, clock), lists, dicts)
       IN  /\ snapshot' = Some(r.data)
           /\ lists' = r.lists
           /\ dicts' = r.dicts
    /\ outcome' = Outcome("save_progress", <<>>, "", <<>>)
    /\ UNCHANGED <<clock, bank, restored, current_round, skipped, stats>>

\* a variant of load_progress that puts a session over a fresh bank in place
\* before the snapshot is imported
LoadProgressInPlace(qd, malformed) ==
    /\ snapshot # None
    /\ Len(dicts) + 2 <= MaxDicts
    /\ LET fresh == NewQuestionBank(qd, lists, dicts)
       IN  /\ bank' = fresh.bank
           /\ lists' = fresh.lists
           /\ dicts' = fresh.dicts
           /\ current_round' = <<>>
           /\ skipped' = <<>>
           /\ stats' = SessionStats(clock)
           /\ outcome' = Outcome("load_progress", <<>>,
                                 IF malformed THEN "JSONDecodeError" ELSE "KeyError", <<>>)
    /\ UNCHANGED <<clock, snapshot, restored>>

\* load_progress(uploaded_file): the file is a saved snapshot, or is malformed;
\* qd is hsk_quiz.json as read at lines 18-19.  Whatever is raised is caught
\* (line 29) after the statements before it have run: the session is replaced
\* at line 23, once import_state has returned.
LoadProgress(qd, malformed) ==
    /\ snapshot # None
    /\ Len(dicts) + 2 <= MaxDicts
    /\ IF malformed
       THEN /\ outcome' = Outcome("load_progress", <<>>, "JSONDecodeError", <<>>)
            /\ UNCHANGED <<lists, dicts, bank, current_round, skipped, stats>>
       ELSE LET data == JsonCopy(snapshot[1], lists, dicts)
                r == ImportStateOp(qd, data.data, data.lists, data.dicts)
            IN  IF r.raised # ""
                THEN /\ outcome' = Outcome("load_progress", <<>>, r.raised, <<>>)
                     /\ UNCHANGED <<lists, dicts, bank, current_round, skipped, stats>>
                ELSE LET sel == SelectQuestionsOp(r.bank[1], r.lists, DefaultN, clock)
                     IN  /\ bank' = r.bank[1]
                         /\ lists' = r.lists
                         /\ dicts' = r.dicts
                         /\ skipped' = <<>>
                         /\ stats' = SessionStats(clock)
                         /\ IF sel.raised # ""
                            THEN /\ current_round' = <<>>
                                 /\ outcome' = Outcome("load_progress", <<>>, sel.raised, <<>>)
                            ELSE /\ \E round \in sel.returns : current_round' = round
                                 /\ outcome' = Outcome("load_progress", <<>>, "", <<>>)
    /\ UNCHANGED <<clock, snapshot, restored>>

\* The bank: a question file is loaded and the bank is built from it
InitWith(QuestionFiles) ==
    /\ clock = 0
    /\ \E qd \in QuestionFiles :
         LET r == NewQuestionBank(qd, <<>>, <<>>)
         IN  /\ bank = r.bank
             /\ lists = r.lists
             /\ dicts = r.dicts
    /\ snapshot = None
    /\ restored = None
    /\ current_round = <<>>
    /\ skipped = <<>>
    /\ stats = SessionStats(0)
    /\ outcome = Outcome("QuestionBank", <<>>, "", <<>>)

Init == InitWith({EmptyQuestions, MainQuestions})

SelectInit == InitWith({EmptyQuestions, PairQuestions, MainQuestions})

Next ==
    \/ clock < MaxTicks * TickUs /\ Tick
    \/ \E qid \in AllIds, correct \in BOOLEAN, t \in TimeTaken :
         Updates(bank) < MaxUpdates /\ UpdateQuestionState(qid, correct, t)

Spec == Init /\ [][Next]_vars

\* Selection: rounds are selected from banks that a few answers have changed
SelectNext ==
    \/ \E qid \in AllIds, correct \in BOOLEAN :
         Updates(bank) < MaxSelectUpdates /\ UpdateQuestionState(qid, correct, Seconds(2))
    \/ \E n \in 0..MaxN : SelectQuestions(n)

SelectSpec == SelectInit /\ [][SelectNext]_vars

\* One question answered again and again
DrillNext ==
    \E qid \in AllIds, correct \in BOOLEAN :
        Updates(bank) < MaxDrill /\ UpdateQuestionState(qid, correct, Seconds(2))

DrillSpec == InitWith({SubQuestions}) /\ [][DrillNext]_vars

\* Persistence: a bank that answers have changed is exported, and the
\* snapshot is imported against a question file
PersistNext ==
    \/ clock < MaxTicks * TickUs /\ Tick
    \/ \E qid \in AllIds, correct \in BOOLEAN :
         Updates(bank) < MaxPersistUpdates /\ UpdateQuestionState(qid, correct, Seconds(2))
    \/ ExportState
    \/ \E qd \in {EmptyQuestions, SubQuestions, MainQuestions, OtherQuestions} :
         ImportState(qd)

PersistSpec ==
    InitWith({SubQuestions, MainQuestions}) /\ [][PersistNext]_vars

\* A session: rounds are started, questions answered and skipped
SessionNext ==
    \/ clock < MaxTicks * TickUs /\ Tick
    \/ \E n \in 0..MaxRound : StartRound(n)
    \/ \E correct \in BOOLEAN :
         (current_round # <<>> => Updates(bank) < MaxAnswers) /\ HandleAnswer(correct)
    \/ HandleSkip

SessionSpec == InitWith({EmptyQuestions, PairQuestions}) /\ [][SessionNext]_vars

\* One round under the consumer policy of the main flow: the round is
\* started once, the served question is answered or skipped
\* the user answers the question served, right or wrong (app.py lines 63-72
\* serve one only while the round is not complete)
AnswerServed ==
    ~IsRoundComplete /\ (HandleAnswer(TRUE) \/ HandleAnswer(FALSE))

ConsumerNext ==
    \/ clock < MaxTicks * TickUs /\ Tick
    \/ \E n \in 1..MaxRound : outcome.op = "QuestionBank" /\ StartRound(n)
    \/ MainFlow
    \/ AnswerServed
    \/ ~IsRoundComplete /\ HandleSkip

\* the page keeps being rendered and the user answers every question served
ConsumerSpec ==
    /\ InitWith({MainQuestions})
    /\ [][ConsumerNext]_vars
    /\ WF_vars(MainFlow)
    /\ WF_vars(AnswerServed)

\* Attempts: the questions of a bank are answered again and again; a correct
\* answer takes 2 s and an incorrect one 12 s, so that time_to_answer, which
\* keeps every entry, tells the outcome of every call
AttemptsNext ==
    \E qid \in AllIds, correct \in BOOLEAN :
        /\ Updates(bank) < MaxAttempts
        /\ UpdateQuestionState(qid, correct, IF correct THEN Seconds(2) ELSE Seconds(12))

AttemptsSpec == InitWith({PairQuestions}) /\ [][AttemptsNext]_vars

\* The first round of a session over a new bank
RoundNext ==
    \/ \E n \in 0..MaxN : outcome.op = "QuestionBank" /\ StartRound(n)
    \/ \E correct \in BOOLEAN : current_round # <<>> /\ HandleAnswer(correct)
    \/ current_round # <<>> /\ HandleSkip

RoundSpec == InitWith({PairQuestions, MainQuestions}) /\ [][RoundNext]_vars

\* Progress files: the first round of a session is played, its progress
\* saved, and a progress file loaded against the question file of the day
LoadNext ==
    \/ \E n \in 1..MaxRound : outcome.op = "QuestionBank" /\ StartRound(n)
    \/ \E correct \in BOOLEAN :
         (current_round # <<>> /\ Updates(bank) < MaxAnswers) /\ HandleAnswer(correct)
    \/ current_round # <<>> /\ HandleSkip
    \/ SaveProgress
    \/ \E qd \in {EmptyQuestions, SubQuestions, PairQuestions}, malformed \in BOOLEAN :
         LoadProgress(qd, malformed)

LoadSpec == InitWith({SubQuestions, PairQuestions}) /\ [][LoadNext]_vars

---------------------------------------------------------------------------
(* The claims *)

\* the LearningState of question q of bank b, its list by value
LearningState(b, L, q) ==
    [b.states[q] EXCEPT !.last_5_attempts = L[@]]

\* the CategoryStats of bank b
CategoryStats(b, D) == D[b.category_stats]

Selected == outcome.op = "select_questions" /\ outcome.raised = ""

\* C1: the list select_questions(n) returns holds no question id twice.
C1_NoDuplicates ==
    Selected =>
        \A i, j \in 1..Len(outcome.ret) : i # j => outcome.ret[i] # outcome.ret[j]

Reviewing == current_round = <<>> /\ skipped # <<>>

\* C2: under the consumer policy, once the round is in review (pending empty,
\* skipped not) and the user answers every question served, the round
\* eventually completes (pending and skipped both empty).
C2_ReviewDrains == Reviewing ~> IsRoundComplete

\* the snapshot is what export_state of bank b returns now, up to its timestamp
SnapshotIsExportOf(b) ==
    /\ snapshot # None
    /\ snapshot[1] = [ExportStateOp(b, clock) EXCEPT !.timestamp = snapshot[1].timestamp]

Imported == outcome.op = "import_state" /\ outcome.raised = ""

\* C3: import_state(question_set, export_state()) on the bank's own question
\* set gives a bank with the same LearningState for every id (all nine
\* fields, response times among them) and the same CategoryStats.
C3_RoundTrip ==
    (Imported /\ SnapshotIsExportOf(bank) /\ restored[1].questions = bank.questions) =>
        /\ \A q \in Ids(bank) :
             LearningState(restored[1], lists, q) = LearningState(bank, lists, q)
        /\ CategoryStats(restored[1], dicts) = CategoryStats(bank, dicts)

\* C4: import_state with a snapshot whose ids differ from the question set
\* does not raise; ids of the question set that the snapshot lacks keep the
\* default LearningState, ids in both get the fields of the snapshot.
C4_ForeignIdsIgnored ==
    outcome.op = "import_state" =>
        /\ outcome.raised = ""
        /\ \A q \in Ids(restored[1]) :
             IF q \in DOMAIN snapshot[1].states
             THEN ExportedState(restored[1].states[q]) = snapshot[1].states[q]
             ELSE LearningState(restored[1], lists, q) =
                    [QuestionState(CategoryOf(restored[1], q), 0)
                        EXCEPT !.last_5_attempts = <<>>]

\* C5: select_questions(n) on a bank with no questions raises nothing and
\* returns the empty list.
C5_EmptyBankSelectsNothing ==
    (outcome.op = "select_questions" /\ Ids(bank) = {}) =>
        (outcome.raised = "" /\ outcome.ret = <<>>)

\* C6: handle_skip with pending not empty moves the head of pending to the
\* tail of skipped, adds 1 to the skip counter, and changes no LearningState
\* and no CategoryStats.
C6_SkipDefers ==
    [][(current_round # <<>> /\ HandleSkip) =>
          /\ current_round' = Tail(current_round)
          /\ skipped' = Append(skipped, Head(current_round))
          /\ stats'.skipped = stats.skipped + 1
          /\ \A q \in Ids(bank) :
               LearningState(bank', lists', q) = LearningState(bank, lists, q)
          /\ CategoryStats(bank', dicts') = CategoryStats(bank, dicts)]_vars

C6_Witness ==
    /\ outcome.op = "handle_skip"
    /\ outcome.ret # <<>>
    /\ skipped = outcome.ret
    /\ current_round # <<>>
    /\ Updates(bank) > 0

\* C7: handle_answer and handle_skip with pending empty raise nothing and
\* change neither pending, skipped, the session's counters and streaks, nor
\* any LearningState or CategoryStats.
C7_NothingPendingNoOp ==
    [][(current_round = <<>> /\ (HandleSkip \/ \E correct \in BOOLEAN : HandleAnswer(correct))) =>
          /\ outcome'.raised = ""
          /\ UNCHANGED <<current_round, skipped, stats>>
          /\ \A q \in Ids(bank) :
               LearningState(bank', lists', q) = LearningState(bank, lists, q)
          /\ CategoryStats(bank', dicts') = CategoryStats(bank, dicts)]_vars

C7_Witness ==
    /\ outcome.op = "handle_answer"
    /\ outcome.ret = <<>>
    /\ current_round = <<>>
    /\ skipped # <<>>

\* 1.0 + the sum over i = 1..k of 2.0 * (1 + 0.5 * i)
RECURSIVE MissDifficulty(_)
MissDifficulty(k) ==
    IF k = 0 THEN RInt(1)
    ELSE RAdd(MissDifficulty(k - 1), RMul(RInt(2), RAdd(RInt(1), Rat(k, 2))))

\* C8: after k misses and no correct answer, a question has
\* consecutive_wrong = k and difficulty = 1.0 + sum 2.0 * (1 + 0.5 * i), which
\* is 13.0 for k = 3; each miss raises both.
C8_MissesAccumulate ==
    /\ [](\A q \in Ids(bank) :
            LET st == bank.states[q]
            IN  st.times_correct = 0 =>
                  /\ st.consecutive_wrong = st.times_shown
                  /\ st.difficulty = MissDifficulty(st.times_shown)
                  /\ (st.times_shown = 3 => st.difficulty = RInt(13)))
    /\ [][\A q \in AllIds :
            UpdateQuestionState(q, FALSE, Seconds(2)) =>
              /\ bank'.states[q].consecutive_wrong > bank.states[q].consecutive_wrong
              /\ RLt(bank.states[q].difficulty, bank'.states[q].difficulty)]_vars

C8_Witness ==
    \E q \in Ids(bank) :
        /\ bank.states[q].times_correct = 0
        /\ bank.states[q].consecutive_wrong = 3
        /\ bank.states[q].difficulty = RInt(13)

\* C9: a correct answer leaves difficulty no larger and never below 1.0,
\* mastery_level no smaller and never above 1.0, and consecutive_wrong 0.
C9_CorrectAnswer ==
    [][\A q \in AllIds :
         UpdateQuestionState(q, TRUE, Seconds(2)) =>
           /\ RLe(bank'.states[q].difficulty, bank.states[q].difficulty)
           /\ RLe(RInt(1), bank'.states[q].difficulty)
           /\ bank'.states[q].mastery_level >= bank.states[q].mastery_level
           /\ bank'.states[q].mastery_level <= 10
           /\ bank'.states[q].consecutive_wrong = 0]_vars

\* a correct answer has lowered a difficulty that stays above the floor
C9_Witness ==
    \E q \in Ids(bank) :
        LET st == bank.states[q]
        IN  /\ st.times_correct > 0
            /\ st.consecutive_wrong = 0
            /\ lists[st.last_5_attempts] # <<>>
            /\ lists[st.last_5_attempts][Len(lists[st.last_5_attempts])]
            /\ RLt(RInt(1), st.difficulty)
            /\ st.mastery_level > 0

\* C10: select_questions(n) returns at most n ids, each an id of the bank.
C10_AtMostNFromBank ==
    Selected =>
        /\ Len(outcome.ret) <= outcome.arg[1]
        /\ \A i \in 1..Len(outcome.ret) : outcome.ret[i] \in Ids(bank)

C10_Witness ==
    /\ Selected
    /\ Len(outcome.ret) = outcome.arg[1]
    /\ Len(outcome.ret) >= 4
    /\ Updates(bank) > 0

\* C11: a progress load that fails in import_state (or before it, on a
\* malformed file) leaves the session and its bank as they were: no
\* LearningState, CategoryStats, pending, skipped or session counter changes.
C11_FailedLoadKeepsSession ==
    [][\A qd \in {EmptyQuestions, SubQuestions, PairQuestions}, malformed \in BOOLEAN :
         (LoadProgress(qd, malformed) /\ outcome'.raised \in {"JSONDecodeError", "KeyError"}) =>
           /\ bank'.questions = bank.questions
           /\ \A q \in Ids(bank) :
                LearningState(bank', lists', q) = LearningState(bank, lists, q)
           /\ CategoryStats(bank', dicts') = CategoryStats(bank, dicts)
           /\ UNCHANGED <<current_round, skipped, stats>>]_vars

\* a load has failed on an unknown id, in a round with one question answered
\* and one skipped
C11_Witness ==
    /\ outcome.op = "load_progress"
    /\ outcome.raised = "KeyError"
    /\ Updates(bank) > 0
    /\ skipped # <<>>

\* C12: start_round(n) whose selection is empty (adjusted_n = 0) leaves
\* pending and skipped empty: is_round_complete() holds right after it.
C12_EmptyRoundIsComplete ==
    (/\ outcome.op = "start_round"
     /\ outcome.raised = ""
     /\ AdjustedN(bank, outcome.arg[1]) = 0) =>
        /\ current_round = <<>>
        /\ skipped = <<>>
        /\ IsRoundComplete

\* a round of one question was asked of a bank with a hard question
\* (adjusted_n = 0), and the round is complete
C12_Witness ==
    /\ outcome.op = "start_round"
    /\ outcome.raised = ""
    /\ outcome.arg = <<1>>
    /\ HardCount(bank) > 0
    /\ AdjustedN(bank, 1) = 0
    /\ IsRoundComplete

\* C13: select_questions(n) on a bank with questions returns exactly
\* min(adjusted_n, number of questions of the bank) ids.
C13_ExactFill ==
    Selected =>
        Len(outcome.ret) = Min(AdjustedN(bank, outcome.arg[1]), Cardinality(Ids(bank)))

\* C14: start_round(n), from any state of the session, leaves skipped empty,
\* the session's counters and both streaks 0, the per-category times empty
\* and pending a selection of the bank, and changes no LearningState and no
\* CategoryStats.  (A step that ends with the outcome of start_round and has
\* not moved the clock is a call of start_round.)
C14_StartRoundResets ==
    [][(outcome'.op = "start_round" /\ clock' = clock) =>
          /\ skipped' = <<>>
          /\ stats'.correct = 0 /\ stats'.wrong = 0 /\ stats'.skipped = 0
          /\ stats'.streak = 0 /\ stats'.best_streak = 0
          /\ DOMAIN stats'.times_per_category = {}
          /\ outcome'.raised = "" =>
                current_round' \in
                    SelectQuestionsOp(bank, lists, outcome'.arg[1], clock).returns
          /\ bank'.questions = bank.questions
          /\ \A q \in Ids(bank) :
               LearningState(bank', lists', q) = LearningState(bank, lists, q)
          /\ CategoryStats(bank', dicts') = CategoryStats(bank, dicts)]_vars

\* a round has been started in a session in which a question had been answered
C14_Witness ==
    /\ outcome.op = "start_round"
    /\ outcome.raised = ""
    /\ Updates(bank) > 0
    /\ current_round # <<>>
    /\ stats.correct + stats.wrong = 0

\* the number of incorrect answers at the end of a list of outcomes
RECURSIVE TrailingWrong(_)
TrailingWrong(attempts) ==
    IF attempts = <<>> \/ attempts[Len(attempts)] THEN 0
    ELSE 1 + TrailingWrong(SubSeq(attempts, 1, Len(attempts) - 1))

\* C15: after any sequence of update_question_state calls on a new bank,
\* every LearningState has difficulty >= 1.0, mastery_level in [0.0, 1.0],
\* 0 <= times_correct <= times_shown and consecutive_wrong >= 0, and
\* consecutive_wrong is the number of incorrect answers since the last
\* correct one (read off the last outcomes, which hold them all while the
\* last correct answer is among them or no outcome has been evicted).
C15_StateInvariants ==
    /\ [](\A q \in Ids(bank) :
            LET st == bank.states[q]
                attempts == lists[st.last_5_attempts]
            IN  /\ RLe(RInt(1), st.difficulty)
                /\ 0 <= st.mastery_level /\ st.mastery_level <= 10
                /\ 0 <= st.times_correct /\ st.times_correct <= st.times_shown
                /\ st.consecutive_wrong >= 0
                /\ st.consecutive_wrong >= TrailingWrong(attempts)
                /\ st.consecutive_wrong <= st.times_shown - st.times_correct
                /\ (st.times_shown <= 5 \/ \E i \in DOMAIN attempts : attempts[i]) =>
                      st.consecutive_wrong = TrailingWrong(attempts)
                /\ st.times_correct = 0 => st.consecutive_wrong = st.times_shown)
    /\ [][\A q \in AllIds :
            /\ UpdateQuestionState(q, FALSE, Seconds(2)) =>
                  bank'.states[q].consecutive_wrong = bank.states[q].consecutive_wrong + 1
            /\ UpdateQuestionState(q, TRUE, Seconds(2)) =>
                  bank'.states[q].consecutive_wrong = 0]_vars

\* a question answered correctly and then incorrectly twice: its mastery
\* level is back at the floor
C15_Witness ==
    \E q \in Ids(bank) :
        LET st == bank.states[q]
        IN  /\ st.times_correct = 1
            /\ st.consecutive_wrong = 2
            /\ st.times_shown = 3
            /\ st.mastery_level = 0

\* the outcomes of all calls for a question, oldest first, under AttemptsSpec
OutcomesOf(st) == [i \in 1..Len(st.time_to_answer) |-> st.time_to_answer[i] = Seconds(2)]

\* C16: after k update_question_state calls for a question of a new bank,
\* last_5_attempts has min(k, 5) entries: the outcomes of the last min(k, 5)
\* calls, oldest first.
C16_LastAttemptsFifo ==
    \A q \in Ids(bank) :
        LET st == bank.states[q]
            attempts == lists[st.last_5_attempts]
        IN  /\ Len(OutcomesOf(st)) = st.times_shown
            /\ Len(attempts) = Min(st.times_shown, 5)
            /\ attempts = LastK(OutcomesOf(st), 5)

\* a sixth call has evicted the outcome of the first, which was the only
\* correct one
C16_Witness ==
    \E q \in Ids(bank) :
        LET st == bank.states[q]
        IN  /\ st.times_shown = 6
            /\ OutcomesOf(st)[1]
            /\ lists[st.last_5_attempts] = <<FALSE, FALSE, FALSE, FALSE, FALSE>>

\* C17: within a round, streak is the number of correct answers since the
\* last wrong one (a correct answer adds 1, a wrong one resets it, a skip
\* leaves it), best_streak is the largest value streak has had, and
\* streak <= best_streak <= correct.
C17_Streaks ==
    /\ [](/\ 0 <= stats.streak
          /\ stats.streak <= stats.best_streak
          /\ stats.best_streak <= stats.correct)
    /\ [][/\ (current_round # <<>> /\ HandleAnswer(TRUE)) =>
                /\ stats'.streak = stats.streak + 1
                /\ stats'.best_streak = Max(stats.best_streak, stats'.streak)
                /\ stats'.correct = stats.correct + 1
          /\ (current_round # <<>> /\ HandleAnswer(FALSE)) =>
                /\ stats'.streak = 0
                /\ stats'.best_streak = stats.best_streak
                /\ stats'.correct = stats.correct
          /\ (current_round # <<>> /\ HandleSkip) =>
                /\ stats'.streak = stats.streak
                /\ stats'.best_streak = stats.best_streak
                /\ stats'.correct = stats.correct]_vars

\* two correct answers and then a wrong one
C17_Witness ==
    /\ stats.streak = 0
    /\ stats.best_streak = 2
    /\ stats.correct = 2
    /\ stats.wrong = 1

\* what the snapshot holds: its states and category_stats, by value
SnapshotValue ==
    [ states |-> [q \in DOMAIN snapshot[1].states |->
                    [snapshot[1].states[q] EXCEPT !.last_5_attempts = lists[@]]],
      category_stats |-> dicts[snapshot[1].category_stats[1]] ]

\* C18: a snapshot returned by export_state is independent of the bank: no
\* later call (update_question_state on the exporting bank, import_state)
\* changes the states or the category_stats the snapshot holds.
C18_SnapshotIndependent ==
    [][(snapshot # None /\ snapshot' = snapshot) => SnapshotValue' = SnapshotValue]_vars

\* C19: after a successful import_state(question_set, snapshot), also of a
\* snapshot taken over other categories, update_question_state (here: through
\* handle_answer on the loaded bank) succeeds for every id of question_set
\* and adds 1 to the total_attempts of the question's category.
C19_UpdateAfterImport ==
    [][\A correct \in BOOLEAN :
         (current_round # <<>> /\ HandleAnswer(correct)) =>
           /\ outcome'.raised = ""
           /\ LET category == CategoryOf(bank, Head(current_round))
              IN  CategoryStats(bank', dicts')[category].total_attempts =
                    CategoryStats(bank, dicts)[category].total_attempts + 1]_vars

\* the ids of a list
Elements(seq) == {seq[i] : i \in 1..Len(seq)}

\* the ids answered in the first round of a session over a new bank
Answered == {q \in Ids(bank) : bank.states[q].times_shown > 0}

\* what of the selection is accounted for: pending and the three counters
Accounted(round, st) == Len(round) + st.correct + st.wrong + st.skipped

\* C20: in every state of a round, length(pending) + correct + wrong + skipped
\* counter is the length of the selection (it is so after start_round and no
\* handle_answer or handle_skip changes it), the skipped list has as many
\* elements as the skipped counter says, and every id is in at most one of
\* pending, skipped and the answered ids (and, being accounted for, in one).
C20_RoundPartition ==
    /\ [](/\ Len(skipped) = stats.skipped
          /\ Elements(current_round) \cap Elements(skipped) = {}
          /\ Elements(current_round) \cap Answered = {}
          /\ Elements(skipped) \cap Answered = {})
    /\ [][/\ outcome'.op = "start_round" /\ outcome'.raised = "" =>
                Accounted(current_round', stats') = Len(current_round')
          /\ outcome'.op \in {"handle_answer", "handle_skip"} =>
                Accounted(current_round', stats') = Accounted(current_round, stats)]_vars

\* the sum of times_shown over the questions of a category, in the order of
\* the question file
ShownInCategory(b, category) ==
    SumSeq([i \in 1..Len(b.questions) |->
              IF b.questions[i].category = category
              THEN b.states[b.questions[i].id].times_shown ELSE 0])

\* the sum of times_correct over the questions of a category
CorrectInCategory(b, category) ==
    SumSeq([i \in 1..Len(b.questions) |->
              IF b.questions[i].category = category
              THEN b.states[b.questions[i].id].times_correct ELSE 0])

\* C21: after any sequence of update_question_state calls on a new bank,
\* each category's total_attempts is the sum of times_shown over its
\* questions and its correct_attempts the sum of their times_correct, so
\* correct_attempts <= total_attempts.
C21_CategoryTotals ==
    \A category \in DOMAIN CategoryStats(bank, dicts) :
        LET cs == CategoryStats(bank, dicts)[category]
        IN  /\ cs.total_attempts = ShownInCategory(bank, category)
            /\ cs.correct_attempts = CorrectInCategory(bank, category)
            /\ 0 <= cs.correct_attempts
            /\ cs.correct_attempts <= cs.total_attempts

\* both questions of a category have been answered, one of the three
\* answers incorrectly
C21_Witness ==
    /\ DOMAIN CategoryStats(bank, dicts) = {"a", "b"}
    /\ CategoryStats(bank, dicts)["a"].total_attempts = 3
    /\ CategoryStats(bank, dicts)["a"].correct_attempts = 2
    /\ \A q \in {1, 2} : bank.states[q].times_shown > 0

=============================================================================
